---- MODULE Spec2Model ----
(***************************************************************************)
(* PNGme chunk codec: ChunkType (src/src/chunk_type.rs) and Chunk          *)
(* (src/src/chunk.rs).  Both are immutable value types built by pure       *)
(* functions; the state below is one data flow through the public          *)
(* interface: a ChunkType is constructed, queried, put in a Chunk with a   *)
(* payload, serialized, parsed back and serialized again, or a caller's    *)
(* byte slice is parsed and the parsed Chunk serialized.                   *)
(*                                                                         *)
(* A u32 is the record [hi, lo] of its two 16-bit halves (value            *)
(* hi * 2^16 + lo), so that every value of the type is representable.      *)
(***************************************************************************)
EXTENDS Integers, Sequences, FiniteSets, TLC

VARIABLES tagIn, tag, flags, payload, chunk, wire, parsed, rewire

vars == <<tagIn, tag, flags, payload, chunk, wire, parsed, rewire>>

(***************************************************************************)
(* Bounds and input alphabets                                              *)
(***************************************************************************)
\* longest payload handed to Chunk::new
MaxData == 2
\* longest text (in characters) handed to ChunkType::from_str
MaxChars == 4
\* longest byte slice handed to Chunk::try_from by a caller
MaxInput == 13

\* bytes of the arrays handed to ChunkType::try_from: the letters' range
\* ends, their outer neighbours, a digit, and the ends of the byte range
TagBytes == {0, 49, 64, 65, 90, 91, 96, 97, 122, 123, 255}
\* characters (code points) of the texts: '1', 'A', 'z', and one character
\* of each multi-byte UTF-8 width (U+00E9, U+20AC, U+1F600)
Chars == {49, 65, 122, 233, 8364, 128512}
\* payload bytes
DataBytes == {0, 97, 255}
\* bytes of the caller's slices: a non-letter and a letter
InBytes == {0, 65}

AllSeqs(S, n) == UNION {[1..k -> S] : k \in 0..n}

\* the texts of the tests of chunk_type.rs: "RuSt", "Rust", "Ru1t", "RUSt"
FixtureStrs ==
    { <<82, 117, 83, 116>>, <<82, 117, 115, 116>>,
      <<82, 117, 49, 116>>, <<82, 85, 83, 116>> }

\* the byte arrays of the tests of chunk_type.rs
FixtureArrs == { <<82, 117, 83, 116>>, <<82, 117, 49, 116>> }

Arrs4 == [1..4 -> TagBytes] \cup FixtureArrs
Strs == AllSeqs(Chars, MaxChars) \cup FixtureStrs
Payloads == AllSeqs(DataBytes, MaxData)

(***************************************************************************)
(* Option / Result values                                                  *)
(***************************************************************************)
None == [kind |-> "None"]
Some(v) == [kind |-> "Some", val |-> v]
Ok(v) == [kind |-> "Ok", val |-> v]
Err(e) == [kind |-> "Err", err |-> e]
\* the thread panics: no value is returned
Panic == [kind |-> "Panic"]

(***************************************************************************)
(* u8 classification (core::u8)                                            *)
(***************************************************************************)
is_ascii_uppercase(b) == b >= 65 /\ b <= 90
is_ascii_lowercase(b) == b >= 97 /\ b <= 122
\* a mutation of is_ascii_alphabetic: one range from 'A' to 'z'
is_ascii_alphabetic_one_range(b) == b >= 65 /\ b <= 122

is_ascii_alphabetic(b) == is_ascii_uppercase(b) \/ is_ascii_lowercase(b)

(***************************************************************************)
(* u32 <-> big-endian bytes                                                *)
(***************************************************************************)
U32(h, l) == [hi |-> h, lo |-> l]

\* n as u32 (truncating cast of a usize)
as_u32(n) == U32((n \div 65536) % 65536, n % 65536)

from_be_bytes(b) == U32((b[1] * 256) + b[2], (b[3] * 256) + b[4])

\* a mutation of to_be_bytes: the bytes in little-endian order
to_le_bytes(x) == << x.lo % 256, x.lo \div 256, x.hi % 256, x.hi \div 256 >>

to_be_bytes(x) == << x.hi \div 256, x.hi % 256, x.lo \div 256, x.lo % 256 >>

(***************************************************************************)
(* CRC-32 (IEEE), table driven, as crc::crc32::checksum_ieee computes it   *)
(***************************************************************************)
RECURSIVE XorBits(_, _, _)
XorBits(a, b, n) ==
    IF n = 0 THEN 0
    ELSE (((a % 2) + (b % 2)) % 2) + 2 * XorBits(a \div 2, b \div 2, n - 1)

Xor4 == [a \in 0..15, b \in 0..15 |-> XorBits(a, b, 4)]
Xor8(a, b) == (Xor4[a \div 16, b \div 16] * 16) + Xor4[a % 16, b % 16]
Xor16(a, b) == (Xor8(a \div 256, b \div 256) * 256) + Xor8(a % 256, b % 256)

xor32(x, y) == U32(Xor16(x.hi, y.hi), Xor16(x.lo, y.lo))
not32(x) == U32(65535 - x.hi, 65535 - x.lo)
shr1(x) == U32(x.hi \div 2, ((x.hi % 2) * 32768) + (x.lo \div 2))
shr8(x) == U32(x.hi \div 256, ((x.hi % 256) * 256) + (x.lo \div 256))

\* the reflected IEEE polynomial 0xEDB88320
IEEE == U32(60856, 33568)

RECURSIVE make_table_entry(_, _)
make_table_entry(value, n) ==
    IF n = 0 THEN value
    ELSE make_table_entry(
             IF value.lo % 2 = 1 THEN xor32(shr1(value), IEEE) ELSE shr1(value),
             n - 1)

IEEE_TABLE == [i \in 0..255 |-> make_table_entry(U32(0, i), 8)]

\* the loop of update: the value after the first n bytes
RECURSIVE crc_update(_, _, _)
crc_update(value, data, n) ==
    IF n = 0 THEN value
    ELSE LET v == crc_update(value, data, n - 1)
         IN  xor32(IEEE_TABLE[Xor8(v.lo % 256, data[n])], shr8(v))

checksum_ieee(data) == not32(crc_update(not32(U32(0, 0)), data, Len(data)))

(***************************************************************************)
(* ChunkType                                                               *)
(***************************************************************************)
\* UTF-8 encoding of one character
utf8_char(c) ==
    IF c < 128 THEN << c >>
    ELSE IF c < 2048 THEN << 192 + (c \div 64), 128 + (c % 64) >>
    ELSE IF c < 65536 THEN
        << 224 + (c \div 4096), 128 + ((c \div 64) % 64), 128 + (c % 64) >>
    ELSE
        << 240 + (c \div 262144), 128 + ((c \div 4096) % 64),
           128 + ((c \div 64) % 64), 128 + (c % 64) >>

\* str::as_bytes: the UTF-8 bytes of the text
RECURSIVE str_as_bytes(_)
str_as_bytes(s) ==
    IF s = <<>> THEN <<>> ELSE utf8_char(Head(s)) \o str_as_bytes(Tail(s))

ChunkType(b) == [chunk_type |-> b]

bytes(t) == t.chunk_type
\* a mutation of is_valid: the four bytes must be letters as well
is_valid_with_letters(t) ==
    /\ is_ascii_uppercase(t.chunk_type[3])
    /\ \A i \in 1..4 : is_ascii_alphabetic(t.chunk_type[i])

is_valid(t) == is_ascii_uppercase(t.chunk_type[3])
is_critical(t) == is_ascii_uppercase(t.chunk_type[1])
is_public(t) == is_ascii_uppercase(t.chunk_type[2])
is_reserved_bit_valid(t) == is_ascii_uppercase(t.chunk_type[3])
is_safe_to_copy(t) == is_ascii_lowercase(t.chunk_type[4])

\* a mutation of ChunkType_try_from: the last byte is not examined
ChunkType_try_from_first_three(value) ==
    IF \E i \in 1..3 : ~is_ascii_alphabetic(value[i])
    THEN Err("InvalidByte")
    ELSE Ok(ChunkType(value))

\* impl TryFrom<[u8; 4]>
ChunkType_try_from(value) ==
    IF \E i \in 1..4 : ~is_ascii_alphabetic(value[i])
    THEN Err("InvalidByte")
    ELSE Ok(ChunkType(value))

\* a mutation of ChunkType_from_str: the bytes are validated as in try_from
ChunkType_from_str_validated(s) ==
    LET b == str_as_bytes(s)
    IN  IF Len(b) # 4 THEN Err("TryFromSliceError")
        ELSE IF ChunkType_try_from(b).kind = "Ok" THEN Ok(ChunkType(b))
        ELSE Err("TryFromSliceError")

\* impl FromStr: only the length of the encoded text is checked
ChunkType_from_str(s) ==
    LET b == str_as_bytes(s)
    IN  IF Len(b) = 4 THEN Ok(ChunkType(b)) ELSE Err("TryFromSliceError")

(***************************************************************************)
(* Chunk                                                                   *)
(***************************************************************************)
\* a mutation of Chunk_new: the CRC covers the type bytes and the payload
Chunk_new_crc_over_type(t, data) ==
    [ length     |-> as_u32(Len(data)),
      chunk_type |-> t,
      chunk_data |-> data,
      crc        |-> checksum_ieee(bytes(t) \o data) ]

Chunk_new(t, data) ==
    [ length     |-> as_u32(Len(data)),
      chunk_type |-> t,
      chunk_data |-> data,
      crc        |-> checksum_ieee(data) ]

\* a mutation of as_bytes: the CRC written is recomputed from the payload
as_bytes_crc_recomputed(c) ==
    to_be_bytes(c.length) \o bytes(c.chunk_type) \o c.chunk_data
        \o to_be_bytes(checksum_ieee(c.chunk_data))

as_bytes(c) ==
    to_be_bytes(c.length) \o bytes(c.chunk_type) \o c.chunk_data
        \o to_be_bytes(c.crc)

\* slice::split_at(mid): panics when mid > len
split_at(s, mid) ==
    IF mid > Len(s) THEN Panic
    ELSE Ok([l |-> SubSeq(s, 1, mid), r |-> SubSeq(s, mid + 1, Len(s))])

\* read_be_u32: the result and what is left of the input
read_be_u32(input) ==
    LET sp == split_at(input, 4)
    IN  IF sp.kind = "Panic" THEN Panic
        ELSE IF Len(sp.val.l) = 4
             THEN [kind |-> "Ok", val |-> from_be_bytes(sp.val.l), rest |-> sp.val.r]
             ELSE Err("FailedConversion")

\* a mutation of Chunk_parsed: the CRC read is verified against the payload
Chunk_parsed_crc_verified(length, chunk_type, chunk_data, crc) ==
    IF crc # checksum_ieee(chunk_data) THEN Err("FailedConversion")
    ELSE Ok([ length     |-> length,
              chunk_type |-> chunk_type,
              chunk_data |-> chunk_data,
              crc        |-> crc ])

\* the value try_from returns on success: every field as read
Chunk_parsed(length, chunk_type, chunk_data, crc) ==
    Ok([ length     |-> length,
         chunk_type |-> chunk_type,
         chunk_data |-> chunk_data,
         crc        |-> crc ])

\* impl TryFrom<&[u8]> for Chunk
Chunk_try_from(value0) ==
    LET rd1 == read_be_u32(value0)
    IN  IF rd1.kind # "Ok" THEN rd1
        ELSE
        LET value1 == rd1.rest
        IN  \* value[0], value[1], value[2], value[3]: indexing panics out of range
            IF Len(value1) < 4 THEN Panic
            ELSE
            LET ct == ChunkType_try_from(SubSeq(value1, 1, 4))
            IN  IF ct.kind = "Err" THEN Err("InvalidByte")
                ELSE
                LET value2 == split_at(value1, 4).val.r
                IN  \* value.len() - 4 underflows: the subtraction panics with
                    \* overflow checks, and without them split_at panics on the
                    \* wrapped index
                    IF Len(value2) < 4 THEN Panic
                    ELSE
                    LET sp  == split_at(value2, Len(value2) - 4)
                        rd2 == read_be_u32(sp.val.r)
                    IN  IF sp.kind = "Panic" THEN Panic
                        ELSE IF rd2.kind # "Ok" THEN rd2
                        ELSE Chunk_parsed(rd1.val, ct.val, sp.val.l, rd2.val)

\* the byte slices handed to Chunk::try_from by a caller
Inputs == AllSeqs(InBytes, MaxInput)

(***************************************************************************)
(* The data flow                                                           *)
(***************************************************************************)
Init ==
    /\ tagIn = [via |-> "none"]
    /\ tag = None
    /\ flags = None
    /\ payload = None
    /\ chunk = None
    /\ wire = None
    /\ parsed = None
    /\ rewire = None

\* nothing has been constructed or parsed yet
Idle == tagIn.via = "none" /\ wire = None

\* ChunkType::try_from(value)
FromBytes ==
    /\ Idle
    /\ \E value \in Arrs4 :
        /\ tagIn' = [via |-> "bytes", arr |-> value]
        /\ tag' = ChunkType_try_from(value)
        /\ UNCHANGED <<flags, payload, chunk, wire, parsed, rewire>>

\* ChunkType::from_str(s)
FromStr ==
    /\ Idle
    /\ \E s \in Strs :
        /\ tagIn' = [via |-> "str", s |-> s]
        /\ tag' = ChunkType_from_str(s)
        /\ UNCHANGED <<flags, payload, chunk, wire, parsed, rewire>>

\* the five flag queries on the constructed ChunkType
Query ==
    /\ tag.kind = "Ok"
    /\ flags = None
    /\ flags' = Some([ is_valid              |-> is_valid(tag.val),
                       is_critical           |-> is_critical(tag.val),
                       is_public             |-> is_public(tag.val),
                       is_reserved_bit_valid |-> is_reserved_bit_valid(tag.val),
                       is_safe_to_copy       |-> is_safe_to_copy(tag.val) ])
    /\ UNCHANGED <<tagIn, tag, payload, chunk, wire, parsed, rewire>>

\* Chunk::new(chunk_type, chunk_data) with the constructed ChunkType
New ==
    /\ tag.kind = "Ok"
    /\ chunk = None
    /\ \E data \in Payloads :
        /\ payload' = Some(data)
        /\ chunk' = Some(Chunk_new(tag.val, data))
    /\ UNCHANGED <<tagIn, tag, flags, wire, parsed, rewire>>

\* chunk.as_bytes() on the Chunk built by Chunk::new
AsBytes ==
    /\ chunk.kind = "Some"
    /\ wire = None
    /\ wire' = Some(as_bytes(chunk.val))
    /\ UNCHANGED <<tagIn, tag, flags, payload, chunk, parsed, rewire>>

\* Chunk::try_from on the serialization of the built Chunk
TryFromSerialized ==
    /\ chunk.kind = "Some"
    /\ wire.kind = "Some"
    /\ parsed = None
    /\ parsed' = Chunk_try_from(wire.val)
    /\ UNCHANGED <<tagIn, tag, flags, payload, chunk, wire, rewire>>

\* Chunk::try_from on a byte slice of the caller
TryFromInput ==
    /\ Idle
    /\ \E value \in Inputs :
        /\ wire' = Some(value)
        /\ parsed' = Chunk_try_from(value)
        /\ UNCHANGED <<tagIn, tag, flags, payload, chunk, rewire>>

\* as_bytes() on the Chunk that Chunk::try_from returned
AsBytesParsed ==
    /\ parsed.kind = "Ok"
    /\ rewire = None
    /\ rewire' = Some(as_bytes(parsed.val))
    /\ UNCHANGED <<tagIn, tag, flags, payload, chunk, wire, parsed>>

Next ==
    \/ FromBytes
    \/ FromStr
    \/ Query
    \/ New
    \/ AsBytes
    \/ TryFromSerialized
    \/ TryFromInput
    \/ AsBytesParsed

Spec == Init /\ [][Next]_vars

(***************************************************************************)
(* Properties                                                              *)
(***************************************************************************)
Upper == 65..90
Lower == 97..122
Letters == Upper \cup Lower

AllLetters(b) == \A i \in 1..4 : b[i] \in Letters

\* the big-endian u32 of the four bytes b[i], ..., b[i + 3]
BigEndianAt(b, i) == U32((b[i] * 256) + b[i + 1], (b[i + 2] * 256) + b[i + 3])

\* number of bytes of the UTF-8 encoding of a text
Utf8Width(c) == IF c < 128 THEN 1 ELSE IF c < 2048 THEN 2 ELSE IF c < 65536 THEN 3 ELSE 4
RECURSIVE EncodedLen(_)
EncodedLen(s) == IF s = <<>> THEN 0 ELSE Utf8Width(Head(s)) + EncodedLen(Tail(s))

\* a Chunk was built by Chunk::new, serialized, and the serialization parsed
RoundTripDone == chunk.kind = "Some" /\ wire.kind = "Some" /\ parsed # None

\* try_from returned Ok with the four fields of the Chunk c
ParsedEquals(c) ==
    /\ parsed.kind = "Ok"
    /\ parsed.val.length = c.length
    /\ bytes(parsed.val.chunk_type) = bytes(c.chunk_type)
    /\ parsed.val.chunk_data = c.chunk_data
    /\ parsed.val.crc = c.crc

\* C1 as stated: for any ChunkType t, however constructed, and any payload d,
\* parsing the serialization of Chunk::new(t, d) succeeds and yields a chunk
\* equal to Chunk::new(t, d) in length, type bytes, payload and CRC.
C1_RoundTripAnyTag == RoundTripDone => ParsedEquals(chunk.val)

\* C1 amended: when the 4 bytes of t are all ASCII letters, parsing the
\* serialization of Chunk::new(t, d) yields a chunk equal to it field for
\* field; when t was built from text and holds a non-letter byte, parsing
\* the serialization fails with InvalidByte.
C1_RoundTripLetterTag ==
    RoundTripDone =>
        IF AllLetters(bytes(tag.val))
        THEN /\ ParsedEquals(chunk.val)
             /\ chunk.val.chunk_data = payload.val
             /\ bytes(chunk.val.chunk_type) = bytes(tag.val)
        ELSE tagIn.via = "str" /\ parsed = Err("InvalidByte")

C1_Witness ==
    /\ RoundTripDone
    /\ tagIn.via = "str"
    /\ parsed.kind = "Ok"
    /\ Len(payload.val) >= 2

\* C2: try_from on a slice of fewer than 8 bytes returns the
\* FailedConversion error as a value (it does not abort).
C2_ShortInputIsError ==
    (parsed # None /\ Len(wire.val) < 8) => parsed = Err("FailedConversion")

\* C3: for an input b of n >= 12 bytes, try_from succeeds iff b[4..8] are
\* all ASCII letters and otherwise fails with InvalidByte; on success the
\* length is the big-endian u32 of b[0..4], the type is b[4..8], the payload
\* is b[8..n-4] and the crc the big-endian u32 of b[n-4..n], whether or not
\* the length and crc agree with the payload.
C3_ParseLongInput ==
    (parsed # None /\ Len(wire.val) >= 12) =>
        LET b == wire.val
            n == Len(wire.val)
        IN  IF \A i \in 5..8 : b[i] \in Letters
            THEN /\ parsed.kind = "Ok"
                 /\ parsed.val.length = BigEndianAt(b, 1)
                 /\ bytes(parsed.val.chunk_type) = SubSeq(b, 5, 8)
                 /\ parsed.val.chunk_data = SubSeq(b, 9, n - 4)
                 /\ parsed.val.crc = BigEndianAt(b, n - 3)
            ELSE parsed = Err("InvalidByte")

C3_Witness ==
    /\ chunk = None
    /\ parsed.kind = "Ok"
    /\ Len(parsed.val.chunk_data) > 0
    /\ parsed.val.length # as_u32(Len(parsed.val.chunk_data))
    /\ parsed.val.crc # checksum_ieee(parsed.val.chunk_data)

\* type tags other than the one the chunk was built with
OtherTags == { ChunkType(<<82, 117, 83, 116>>), ChunkType(<<73, 69, 78, 68>>) }

\* C4: Chunk::new always returns a Chunk, and its crc is the CRC-32 (IEEE)
\* of the payload alone: the same for every type tag, and the standard
\* check values on the payloads "", "a" and the single byte 0.
C4_CrcOfPayloadAlone ==
    /\ (payload.kind = "Some") = (chunk.kind = "Some")
    /\ chunk.kind = "Some" =>
        /\ chunk.val.crc = checksum_ieee(payload.val)
        /\ \A t \in OtherTags : Chunk_new(t, payload.val).crc = chunk.val.crc
        /\ payload.val = <<>> => chunk.val.crc = U32(0, 0)
        /\ payload.val = <<97>> => chunk.val.crc = U32(59575, 48707)
        /\ payload.val = <<0>> => chunk.val.crc = U32(53762, 61325)

C4_Witness ==
    /\ chunk.kind = "Some"
    /\ payload.val = <<97>>
    /\ chunk.val.crc = U32(59575, 48707)
    /\ bytes(chunk.val.chunk_type) \notin { bytes(t) : t \in OtherTags }

\* C5: ChunkType::try_from on a 4-byte array fails with InvalidByte iff one
\* of the bytes is not an ASCII letter; otherwise it succeeds and bytes()
\* is the input array unchanged.
C5_FromBytesChecksLetters ==
    tagIn.via = "bytes" =>
        IF \E i \in 1..4 : tagIn.arr[i] \notin Letters
        THEN tag = Err("InvalidByte")
        ELSE tag.kind = "Ok" /\ bytes(tag.val) = tagIn.arr

C5_Witness ==
    /\ tagIn.via = "bytes"
    /\ tag = Err("InvalidByte")
    /\ \A i \in 1..3 : tagIn.arr[i] \in Letters

\* C6 as stated: every ChunkType successfully constructed, by try_from, by
\* from_str or as the type of a parsed Chunk, holds 4 ASCII letters.
C6_EveryTagAlphabetic ==
    /\ tag.kind = "Ok" => AllLetters(bytes(tag.val))
    /\ parsed.kind = "Ok" => AllLetters(bytes(parsed.val.chunk_type))

\* C6 amended: every ChunkType successfully constructed by try_from on a
\* 4-byte array, or as the type of a parsed Chunk, holds 4 ASCII letters
\* (from_str is not covered: it accepts any 4 bytes).
C6_CheckedTagAlphabetic ==
    /\ (tag.kind = "Ok" /\ tagIn.via = "bytes") => AllLetters(bytes(tag.val))
    /\ parsed.kind = "Ok" => AllLetters(bytes(parsed.val.chunk_type))

C6_Witness ==
    /\ tagIn.via = "bytes"
    /\ tag.kind = "Ok"
    /\ parsed.kind = "Ok"

\* C7: is_critical iff byte 0 is uppercase, is_public iff byte 1 is
\* uppercase, is_reserved_bit_valid iff byte 2 is uppercase, is_safe_to_copy
\* iff byte 3 is lowercase, and is_valid equals is_reserved_bit_valid for
\* every tag, letters or not.
C7_FlagMapping ==
    flags.kind = "Some" =>
        LET b == bytes(tag.val)
            f == flags.val
        IN  /\ f.is_critical = (b[1] \in Upper)
            /\ f.is_public = (b[2] \in Upper)
            /\ f.is_reserved_bit_valid = (b[3] \in Upper)
            /\ f.is_safe_to_copy = (b[4] \in Lower)
            /\ f.is_valid = f.is_reserved_bit_valid

C7_Witness ==
    /\ flags.kind = "Some"
    /\ flags.val.is_valid
    /\ ~AllLetters(bytes(tag.val))

\* C8: from_str succeeds iff the text encodes to exactly 4 bytes and fails
\* with a slice-conversion error otherwise; on success the bytes are stored
\* as given without a letter check, so a text with a non-letter is accepted
\* though try_from rejects the same bytes, and for 4 letters the tag equals
\* the one try_from builds.
C8_FromStrChecksLengthOnly ==
    tagIn.via = "str" =>
        IF EncodedLen(tagIn.s) = 4
        THEN /\ tag.kind = "Ok"
             /\ bytes(tag.val) = str_as_bytes(tagIn.s)
             /\ IF AllLetters(bytes(tag.val))
                THEN ChunkType_try_from(bytes(tag.val)) = Ok(tag.val)
                ELSE ChunkType_try_from(bytes(tag.val)) = Err("InvalidByte")
        ELSE tag = Err("TryFromSliceError")

\* "Ru1t"
C8_Witness ==
    /\ tagIn.via = "str"
    /\ tagIn.s = <<82, 117, 49, 116>>
    /\ tag.kind = "Ok"

\* C9: try_from on 8 to 11 bytes whose bytes 4..8 are ASCII letters returns
\* the FailedConversion error as a value (it does not abort).
C9_TruncatedCrcIsError ==
    ( /\ parsed # None
      /\ Len(wire.val) >= 8
      /\ Len(wire.val) <= 11
      /\ \A i \in 5..8 : wire.val[i] \in Letters )
    => parsed = Err("FailedConversion")

\* C10: for every slice b on which try_from succeeds, as_bytes of the parsed
\* Chunk is b byte for byte, also when the length or CRC in b do not match
\* the payload.
C10_ReverseRoundTrip ==
    (parsed.kind = "Ok" /\ rewire.kind = "Some") => rewire.val = wire.val

C10_Witness ==
    /\ chunk = None
    /\ rewire.kind = "Some"
    /\ rewire.val = wire.val
    /\ parsed.val.length # as_u32(Len(parsed.val.chunk_data))
    /\ parsed.val.crc # checksum_ieee(parsed.val.chunk_data)

====
